---- MODULE Spec2Model ----
(***************************************************************************)
(* Price-tracking engine of xorig-backadmin.                               *)
(*                                                                         *)
(*   jobs/priceTracker.js (retrying revision)  processSingleLink,          *)
(*                                             runPriceTracker             *)
(*   utils/scraper.js                          parsePrice, scrapeUrl       *)
(*   controllers/componentController.js        addTrackedLink              *)
(*                                                                         *)
(* Every await on the data store or on a timer is a step boundary: the     *)
(* steps of different processSingleLink executions interleave there.       *)
(* Strings that the code searches or parses (URLs, price texts) are        *)
(* sequences of tokens, so String.includes and the price regex are         *)
(* computed, not assumed.                                                  *)
(***************************************************************************)
EXTENDS Integers, Sequences, FiniteSets, TLC

(***************************************************************************)
(* Bounds of the model.                                                    *)
(***************************************************************************)
MaxLinks == 2
MaxFaults == 1
BatchLinks == 2
BatchFaults == 3
MaxToggles == 1
RepeatRuns == 2
RepeatFaults == 3
Requests == 1
RequestFaults == 3
MaxLen == 3
ManualOffers == 2
ManualFaults == 1

(***************************************************************************)
(* Program constants.                                                      *)
(***************************************************************************)
MaxRetries == 3
RetryDelay == 2
LinkDelay == 3

VARIABLES links, offers, now, proc, batch, openBrowsers, unhandled, quota,
          responses, call

vars == <<links, offers, now, proc, batch, openBrowsers, unhandled, quota,
          responses, call>>

(***************************************************************************)
(* Strings.  A URL is a sequence of tokens and a price text a sequence of  *)
(* characters; Includes is String.prototype.includes.                      *)
(***************************************************************************)
Includes(s, pat) ==
    \E k \in 0..(Len(s) - Len(pat)) :
        \A j \in 1..Len(pat) : s[k + j] = pat[j]

UrlMd == <<"mdcomputers", ".in">>
UrlVedant == <<"vedant", "computers", ".com">>
UrlPrime == <<"primeabgb", ".com">>
UrlOther == <<"amazon", ".in">>
NoUrl == <<>>
Urls == {UrlMd, UrlVedant, UrlPrime, UrlOther}
BatchUrls == {UrlMd, UrlPrime, UrlOther}

ComponentIds == {"C1"}

(***************************************************************************)
(* parsePrice (scraper.js).                                                *)
(***************************************************************************)
DigitSeq == <<"0", "1", "2", "3", "4", "5", "6", "7", "8", "9">>
Digits == {DigitSeq[i] : i \in 1..10}
NumChars == Digits \cup {",", "."}
NaN == -1

DigitVal(c) == (CHOOSE i \in 1..10 : DigitSeq[i] = c) - 1

IsDigit(c) == c \in Digits

\* m.replace(/[^\d]/g, '')
StripNonDigits(m) == SelectSeq(m, IsDigit)

RECURSIVE DecimalValue(_)
DecimalValue(ds) ==
    IF ds = <<>> THEN 0
    ELSE 10 * DecimalValue(SubSeq(ds, 1, Len(ds) - 1)) + DigitVal(ds[Len(ds)])

\* parseInt of a string of digits; the empty string gives NaN
ParseInt(ds) == IF ds = <<>> THEN NaN ELSE DecimalValue(ds)

\* priceStr.match(/[\d,.]+/g): the maximal runs of digits, commas and dots
RECURSIVE MatchRuns(_, _, _)
MatchRuns(s, cur, acc) ==
    IF s = <<>> THEN (IF cur = <<>> THEN acc ELSE Append(acc, cur))
    ELSE IF Head(s) \in NumChars THEN MatchRuns(Tail(s), Append(cur, Head(s)), acc)
    ELSE MatchRuns(Tail(s), <<>>, IF cur = <<>> THEN acc ELSE Append(acc, cur))

\* IsPrice that lets every parsed value through
IsPriceAny(n) == TRUE

IsPrice(n) == n # NaN /\ n > 0

\* SeqMin that takes the largest value
SeqMax(q) == CHOOSE m \in {q[i] : i \in 1..Len(q)} : \A j \in 1..Len(q) : m >= q[j]

SeqMin(q) == CHOOSE m \in {q[i] : i \in 1..Len(q)} : \A j \in 1..Len(q) : m <= q[j]

parsePrice(priceStr) ==
    IF priceStr = <<>> THEN 0
    ELSE LET matches == MatchRuns(priceStr, <<>>, <<>>)
             parsed == [i \in 1..Len(matches) |-> ParseInt(StripNonDigits(matches[i]))]
             prices == SelectSeq(parsed, IsPrice)
         IN  IF matches = <<>> THEN 0
             ELSE IF prices = <<>> THEN 0
             ELSE SeqMin(prices)

(***************************************************************************)
(* Rendered pages.  An element is Absent or carries its innerText; btn is  *)
(* the state of #button-cart; oos says whether .stock-status reads "out of *)
(* stock".                                                                 *)
(***************************************************************************)
Absent == <<"#absent">>

TextDeal == <<"Rs", "1", "2", ",", "9", "9", "9">>
TextWasNow == <<"Rs", "8", ",", "3", "9", "9", " ", "Rs", "5", ",", "3", "0", "0">>
TextCall == <<"C", "a", "l", "l">>
TextThousand == <<"1", ",", "0", "0", "0">>

\* the price texts that parsePrice is evaluated on: every text of up to
\* MaxLen characters over TextChars, and the texts above
TextChars == {"0", "3", "7", ",", "R"}

RECURSIVE TextsOfLen(_)
TextsOfLen(n) ==
    IF n = 0 THEN {<<>>}
    ELSE {Append(t, c) : t \in TextsOfLen(n - 1), c \in TextChars}

Texts ==
    UNION {TextsOfLen(n) : n \in 0..MaxLen}
        \cup {TextDeal, TextWasNow, TextCall, TextThousand}

PageDeal == [notFound |-> FALSE, priceNew |-> TextDeal, productPrice |-> Absent,
             price |-> Absent, rightPrice |-> Absent, btn |-> "enabled", oos |-> FALSE]
PageWasNow == [notFound |-> FALSE, priceNew |-> Absent, productPrice |-> Absent,
               price |-> TextWasNow, rightPrice |-> Absent, btn |-> "absent", oos |-> TRUE]
PageCall == [notFound |-> FALSE, priceNew |-> Absent, productPrice |-> TextCall,
             price |-> Absent, rightPrice |-> Absent, btn |-> "disabled", oos |-> FALSE]
PageGone == [notFound |-> TRUE, priceNew |-> Absent, productPrice |-> Absent,
             price |-> Absent, rightPrice |-> Absent, btn |-> "absent", oos |-> FALSE]
Pages == {PageDeal, PageWasNow, PageCall, PageGone}

\* the loaded pages that the extraction strategies are evaluated on: each
\* price element is absent, empty or carries a price text, and the cart
\* button is absent, enabled, disabled or hidden (style.display none).  An
\* element that matches '.right-content-product .price' matches '.price'.
ElementTexts == {Absent, <<>>, TextDeal, TextWasNow}

ButtonStates == {"absent", "enabled", "disabled", "hidden"}

ExtractPages ==
    {pg \in [notFound : {FALSE}, priceNew : ElementTexts, productPrice : ElementTexts,
             price : ElementTexts, rightPrice : ElementTexts,
             btn : ButtonStates, oos : BOOLEAN] :
        pg.rightPrice # Absent => pg.price # Absent}

(***************************************************************************)
(* The two extraction strategies of scrapeUrl.  inStock is "true",         *)
(* "false" or "null", the three values the page.evaluate callbacks give.   *)
(***************************************************************************)
MdPriceText(page) ==
    IF page.priceNew # Absent THEN page.priceNew
    ELSE IF page.productPrice # Absent THEN page.productPrice
    ELSE IF page.price # Absent THEN page.price
    ELSE IF page.rightPrice # Absent THEN page.rightPrice
    ELSE <<"0">>

MdInStock(page) ==
    IF page.btn = "absent" THEN "null"
    ELSE IF page.btn = "enabled" /\ ~page.oos THEN "true"
    ELSE "false"

VedantPriceText(page) ==
    LET el == IF page.productPrice # Absent THEN page.productPrice
              ELSE IF page.priceNew # Absent THEN page.priceNew
              ELSE page.price
    IN  IF el = Absent \/ el = <<>> THEN <<"0">> ELSE el

VedantInStock(page) == IF page.btn # "absent" THEN "true" ELSE "false"

NoData == [isNull |-> TRUE, vendor |-> "", price |-> 0, inStock |-> "false"]

IsMdUrl(url) == Includes(url, <<"mdcomputers", ".in">>)

IsVedantUrl(url) == Includes(url, <<"vedant", "computers", ".com">>)

\* the extraction of scrapeUrl once the page is loaded and is not a 404
Extract(url, page) ==
    IF IsMdUrl(url)
    THEN [isNull |-> FALSE, vendor |-> "mdcomputers",
          price |-> parsePrice(MdPriceText(page)), inStock |-> MdInStock(page)]
    ELSE IF IsVedantUrl(url)
    THEN [isNull |-> FALSE, vendor |-> "vedant",
          price |-> parsePrice(VedantPriceText(page)), inStock |-> VedantInStock(page)]
    ELSE [isNull |-> FALSE, vendor |-> "", price |-> 0, inStock |-> "false"]

\* the vendor gate of processSingleLink
validVendors == {<<"mdcomputers">>, <<"vedant">>, <<"primeabgb">>, <<"elitehubs">>}

IsValid(url) == \E v \in validVendors : Includes(url, v)

(***************************************************************************)
(* The data store.  links and offers are the ExternalId and Offer tables,  *)
(* a row's id is its index; lastCheckedAt 0 is null.  now is the clock     *)
(* that new Date() reads; it advances when a timer is awaited.             *)
(*                                                                         *)
(* quota bounds the environment: how many addTrackedLink requests may      *)
(* still be made, how many batch runs may still be started and how many    *)
(* store calls may still fail, how many links may still be switched off    *)
(* and how many addManualOffer requests may still be made.  responses      *)
(* holds what the two request handlers sent, one entry per request.        *)
(***************************************************************************)
NoLink == [id |-> 0, componentId |-> "", externalUrl |-> <<>>, isActive |-> FALSE]

\* the fields of an ExternalId row that processSingleLink and the batch read
LinkOf(row) == [id |-> row.id, componentId |-> row.componentId,
                externalUrl |-> row.externalUrl, isActive |-> row.isActive]

Matching(os, componentId, vendorId) ==
    {i \in 1..Len(os) : os[i].componentId = componentId /\ os[i].vendorId = vendorId}

\* FindFirst with the vendor looked up in the wrong column
FindFirstBySource(os, componentId, vendorId) ==
    LET m == {i \in 1..Len(os) : os[i].componentId = componentId
                                  /\ os[i].sourceId = vendorId}
    IN  IF m = {} THEN 0 ELSE CHOOSE i \in m : \A j \in m : i <= j

\* prisma.offer.findFirst({where: {componentId, vendorId}}); 0 is null
FindFirst(os, componentId, vendorId) ==
    LET m == Matching(os, componentId, vendorId)
    IN  IF m = {} THEN 0 ELSE CHOOSE i \in m : \A j \in m : i <= j

\* OfferUpdate that leaves effective_price as it was
OfferUpdatePriceOnly(os, id, data, t) ==
    [os EXCEPT ![id] = [@ EXCEPT !.price = data.price,
                                 !.in_stock = data.inStock,
                                 !.last_updated = t]]

\* OfferUpdate that also tags the Offer as the scraper's
OfferUpdateRetag(os, id, data, t) ==
    [os EXCEPT ![id] = [@ EXCEPT !.price = data.price,
                                 !.effective_price = data.price,
                                 !.in_stock = data.inStock,
                                 !.sourceId = "scraper-auto",
                                 !.last_updated = t]]

\* prisma.offer.update of processSingleLink
OfferUpdate(os, id, data, t) ==
    [os EXCEPT ![id] = [@ EXCEPT !.price = data.price,
                                 !.effective_price = data.price,
                                 !.in_stock = data.inStock,
                                 !.last_updated = t]]

\* prisma.offer.create of processSingleLink; last_updated is the column default
OfferCreate(os, link, data, t) ==
    Append(os, [componentId |-> link.componentId,
                vendorId |-> data.vendor,
                sourceId |-> "scraper-auto",
                vendor_url |-> link.externalUrl,
                price |-> data.price,
                effective_price |-> data.price,
                in_stock |-> data.inStock,
                shipping |-> 0,
                last_updated |-> t])

\* prisma.offer.create of addManualOffer: vendorName || "Manual Entry",
\* inStock ?? true
ManualOfferCreate(os, componentId, price, vendorName, inStock, t) ==
    Append(os, [componentId |-> componentId,
                vendorId |-> IF vendorName = "" THEN "Manual Entry" ELSE vendorName,
                sourceId |-> "manual",
                vendor_url |-> <<>>,
                price |-> price,
                effective_price |-> price,
                in_stock |-> IF inStock = "undefined" THEN "true" ELSE inStock,
                shipping |-> 0,
                last_updated |-> t])

\* if (existingOffer) update else create
Upsert(os, existing, link, data, t) ==
    IF existing # 0 THEN OfferUpdate(os, existing, data, t)
    ELSE OfferCreate(os, link, data, t)

\* prisma.externalId.findMany({where: {externalUrl: {not: null}, isActive: true}})
IsTrackedAny(l) == TRUE

IsTracked(l) == l.isActive

FindManyTracked(ls) ==
    LET rows == SelectSeq(ls, IsTracked)
    IN  [i \in 1..Len(rows) |-> LinkOf(rows[i])]

\* prisma.externalId.update({where: {id}, data: {lastCheckedAt: new Date()}})
TouchLink(ls, id, t) == [ls EXCEPT ![id] = [@ EXCEPT !.lastCheckedAt = t]]

\* ExternalIdUpdate that persists the row even when the call throws
ExternalIdUpdateLeaky(ls, id, t, ok) == TouchLink(ls, id, t)

\* await prisma.externalId.update(...): the row is written or the call throws
ExternalIdUpdate(ls, id, t, ok) == IF ok THEN TouchLink(ls, id, t) ELSE ls

(***************************************************************************)
(* One execution of processSingleLink.  Process 0 is the one that          *)
(* runPriceTracker awaits, process k > 0 the fire-and-forget one that      *)
(* addTrackedLink starts for link k.                                       *)
(*   faults      store failures of this cycle, one entry per failed attempt*)
(*   offerWrites offer.create and offer.update calls that persisted        *)
(*   creates     offer.create calls that persisted                         *)
(*   fetches     calls of puppeteer.launch                                 *)
(*   fetched     how the call of scrapeUrl went                            *)
(*   checkedAtStart  the link's lastCheckedAt when the cycle began         *)
(***************************************************************************)
ProcIds == 0..MaxLinks

IdleProc == [pc |-> "idle", link |-> NoLink, data |-> NoData, retries |-> 0,
             existing |-> 0, result |-> "none", outcome |-> "none",
             faults |-> <<>>, offerWrites |-> 0, creates |-> 0, fetches |-> 0,
             fetched |-> "none", checkedAtStart |-> 0]

Finish(r, result, outcome) ==
    [r EXCEPT !.pc = "done", !.result = result, !.outcome = outcome]

\* OuterCatch that throws the error on
OuterCatchRethrow(r) == Finish(r, "rejected", "error")

\* catch (error) { console.error(...) } return null;
OuterCatch(r) == Finish(r, "null", "error")

\* Begin without the vendor gate
BeginNoGate(link) ==
    LET r == [IdleProc EXCEPT !.link = link]
    IN  IF link.externalUrl = <<>> THEN Finish(r, "undefined", "fetch_failed")
        ELSE [r EXCEPT !.pc = "scrape"]

\* the synchronous prefix of processSingleLink(link), up to the first await;
\* scrapeUrl returns null at once for an empty url
Begin(link) ==
    LET r == [IdleProc EXCEPT !.link = link]
    IN  IF ~IsValid(link.externalUrl) THEN Finish(r, "undefined", "unsupported")
        ELSE IF link.externalUrl = <<>> THEN Finish(r, "undefined", "fetch_failed")
        ELSE [r EXCEPT !.pc = "scrape"]

\* AfterScrape without the zero-price check
AfterScrapeNoZeroCheck(r, data) ==
    IF data.isNull THEN Finish(r, "undefined", "fetch_failed")
    ELSE [r EXCEPT !.data = data, !.retries = MaxRetries, !.pc = "find"]

\* the checks of processSingleLink on what scrapeUrl returned
AfterScrape(r, data) ==
    IF data.isNull THEN Finish(r, "undefined", "fetch_failed")
    ELSE IF data.price = 0 THEN Finish([r EXCEPT !.data = data], "undefined", "zero_price")
    ELSE [r EXCEPT !.data = data, !.retries = MaxRetries, !.pc = "find"]

\* InnerCatch that does not count the failed attempt
InnerCatchNoCount(r, kind) ==
    [r EXCEPT !.pc = "backoff", !.faults = Append(@, kind)]

\* catch (dbError) { ...; retries--; await new Promise(r => setTimeout(r, 2000)) }
InnerCatch(r, kind) ==
    [r EXCEPT !.retries = @ - 1, !.pc = "backoff", !.faults = Append(@, kind)]

\* AfterBackoff whose next attempt reuses the lookup of the first one
AfterBackoffStale(r) ==
    IF r.retries > 0 THEN [r EXCEPT !.pc = "write"]
    ELSE Finish(r, "data", "exhausted")

\* AfterBackoff whose next attempt starts over from the fetch
AfterBackoffRefetch(r) ==
    IF r.retries > 0 THEN [r EXCEPT !.pc = "scrape"]
    ELSE Finish(r, "data", "exhausted")

\* while (retries > 0) {...} return data;
AfterBackoff(r) ==
    IF r.retries > 0 THEN [r EXCEPT !.pc = "find"]
    ELSE Finish(r, "data", "exhausted")

\* AfterTouch without the break: the loop is entered again
AfterTouchNoBreak(r) == [r EXCEPT !.pc = "find"]

\* break; ... return data;
AfterTouch(r) == Finish(r, "data", "reconciled")

\* call is one evaluation of parsePrice or of an extraction strategy on its
\* own: the argument, whether it has returned, and what it returned
NoCall == [arg |-> <<>>, done |-> FALSE, ret |-> 0]

IdleBatch == [pc |-> "idle", trackedLinks |-> <<>>, i |-> 0, failed |-> FALSE,
              endedAt |-> 0]

\* runPriceTracker has no return statement: its promise resolves to
\* undefined, which carries no counts
NoSummary == [isUndefined |-> TRUE, processed |-> 0, succeeded |-> 0,
              failed |-> 0, skipped |-> 0]

BatchReturn(b) == NoSummary

\* BatchCatch that throws the error on to the caller of runPriceTracker
BatchCatchRethrow(b) == [b EXCEPT !.pc = "rejected", !.failed = TRUE]

\* catch (e) { console.error("[Job] Critical Failure:", e.message) }
BatchCatch(b) == [b EXCEPT !.pc = "done", !.failed = TRUE]

\* processSingleLink called without await: the loop goes on at once
SettledAtOnce(r) == r.pc # "idle"

\* await processSingleLink(link): the loop goes on when the promise settled
Settled(r) == r.pc = "done"

Init ==
    /\ links = <<>>
    /\ offers = <<>>
    /\ now = 1
    /\ proc = [p \in ProcIds |-> IdleProc]
    /\ batch = IdleBatch
    /\ openBrowsers = 0
    /\ unhandled = 0
    /\ responses = <<>>
    /\ call = NoCall
    /\ quota = [links |-> MaxLinks, runs |-> 0, faults |-> MaxFaults, toggles |-> 0,
                manual |-> 0]

\* the links that were registered before the batch job is started
RegisteredLinks ==
    UNION {[1..n -> ComponentIds \X BatchUrls] : n \in 0..BatchLinks}

RowOf(reg, i) == [id |-> i, componentId |-> reg[i][1], externalUrl |-> reg[i][2],
                  isActive |-> TRUE, lastCheckedAt |-> 0]

InitBatch ==
    /\ \E reg \in RegisteredLinks : links = [i \in 1..Len(reg) |-> RowOf(reg, i)]
    /\ offers = <<>>
    /\ now = 1
    /\ proc = [p \in ProcIds |-> IdleProc]
    /\ batch = IdleBatch
    /\ openBrowsers = 0
    /\ unhandled = 0
    /\ responses = <<>>
    /\ call = NoCall
    /\ quota = [links |-> 0, runs |-> 1, faults |-> BatchFaults,
                toggles |-> MaxToggles,
                manual |-> 0]

InitRepeat ==
    /\ \E c \in ComponentIds, u \in Urls :
         links = <<[id |-> 1, componentId |-> c, externalUrl |-> u,
                    isActive |-> TRUE, lastCheckedAt |-> 0]>>
    /\ offers = <<>>
    /\ now = 1
    /\ proc = [p \in ProcIds |-> IdleProc]
    /\ batch = IdleBatch
    /\ openBrowsers = 0
    /\ unhandled = 0
    /\ responses = <<>>
    /\ call = NoCall
    /\ quota = [links |-> 0, runs |-> RepeatRuns, faults |-> RepeatFaults,
                toggles |-> 0,
                manual |-> 0]

\* nothing is registered yet and addTrackedLink is about to be requested
InitRegister ==
    /\ links = <<>>
    /\ offers = <<>>
    /\ now = 1
    /\ proc = [p \in ProcIds |-> IdleProc]
    /\ batch = IdleBatch
    /\ openBrowsers = 0
    /\ unhandled = 0
    /\ responses = <<>>
    /\ call = NoCall
    /\ quota = [links |-> Requests, runs |-> 0, faults |-> RequestFaults,
                toggles |-> 0,
                manual |-> 0]

\* parsePrice is about to be called on a price text
InitParse ==
    /\ links = <<>>
    /\ offers = <<>>
    /\ now = 1
    /\ proc = [p \in ProcIds |-> IdleProc]
    /\ batch = IdleBatch
    /\ openBrowsers = 0
    /\ unhandled = 0
    /\ responses = <<>>
    /\ quota = [links |-> 0, runs |-> 0, faults |-> 0, toggles |-> 0,
                manual |-> 0]
    /\ \E t \in Texts : call = [arg |-> t, done |-> FALSE, ret |-> 0]

\* a page is loaded and the strategy for its URL is about to be applied
InitExtract ==
    /\ links = <<>>
    /\ offers = <<>>
    /\ now = 1
    /\ proc = [p \in ProcIds |-> IdleProc]
    /\ batch = IdleBatch
    /\ openBrowsers = 0
    /\ unhandled = 0
    /\ responses = <<>>
    /\ quota = [links |-> 0, runs |-> 0, faults |-> 0, toggles |-> 0,
                manual |-> 0]
    /\ \E u \in Urls, pg \in ExtractPages :
         call = [arg |-> [url |-> u, page |-> pg], done |-> FALSE, ret |-> NoData]

\* one mdcomputers link is registered; the batch job is about to run and
\* addManualOffer is about to be requested
InitManual ==
    /\ \E c \in ComponentIds :
         links = <<[id |-> 1, componentId |-> c, externalUrl |-> UrlMd,
                    isActive |-> TRUE, lastCheckedAt |-> 0]>>
    /\ offers = <<>>
    /\ now = 1
    /\ proc = [p \in ProcIds |-> IdleProc]
    /\ batch = IdleBatch
    /\ openBrowsers = 0
    /\ unhandled = 0
    /\ responses = <<>>
    /\ call = NoCall
    /\ quota = [links |-> 0, runs |-> 1, faults |-> ManualFaults, toggles |-> 0,
                manual |-> ManualOffers]

\* whether a store call of this step may fail
MayFail(ok) == ok \/ quota.faults > 0

Spend(ok) == IF ok THEN quota ELSE [quota EXCEPT !.faults = @ - 1]

(***************************************************************************)
(* scrapeUrl, one call.  launch may throw; newPage and setExtraHTTPHeaders *)
(* are outside the try and may throw with the browser open; goto, title    *)
(* and the evaluate calls are inside it, and so are both close calls.      *)
(* The call touches neither table, so it is one step; browser.close() is   *)
(* taken to succeed.  openBrowsers counts the browsers launched and not    *)
(* closed.                                                                 *)
(***************************************************************************)
ScrapeOutcomes == {"launch_throws", "setup_throws", "goto_throws", "loaded"}

\* the browsers that scrapeUrl leaves open on this exit path
LeftOpen(how) == IF how = "setup_throws" THEN 1 ELSE 0

\* how the fetch went: a loaded page may be the store's 404 page
FetchKind(how, page) ==
    IF how = "loaded" /\ page.notFound THEN "not_found" ELSE how

\* ScrapeResult without the check of the page title
ScrapeResultNo404(url, how, page) ==
    IF how = "goto_throws" THEN NoData ELSE Extract(url, page)

\* what scrapeUrl returns when it does not throw
ScrapeResult(url, how, page) ==
    IF how = "goto_throws" \/ page.notFound THEN NoData
    ELSE Extract(url, page)

ScrapeUrl(p) ==
    /\ proc[p].pc = "scrape"
    /\ \E how \in ScrapeOutcomes, page \in Pages :
         LET r == [proc[p] EXCEPT !.fetches = @ + 1,
                                  !.fetched = FetchKind(how, page)]
             ok == how \notin {"launch_throws", "setup_throws"}
         IN  /\ MayFail(ok)
             /\ quota' = Spend(ok)
             /\ proc' = [proc EXCEPT ![p] =
                    IF how \in {"launch_throws", "setup_throws"} THEN OuterCatch(r)
                    ELSE AfterScrape(r, ScrapeResult(r.link.externalUrl, how, page))]
             /\ openBrowsers' = openBrowsers + LeftOpen(how)
    /\ UNCHANGED <<links, offers, now, batch, unhandled, responses, call>>

(***************************************************************************)
(* The reconciliation loop of processSingleLink.                           *)
(***************************************************************************)
Find(p) ==
    /\ proc[p].pc = "find"
    /\ \E ok \in BOOLEAN :
         /\ MayFail(ok)
         /\ quota' = Spend(ok)
         /\ proc' = [proc EXCEPT ![p] =
                IF ok
                THEN [proc[p] EXCEPT !.pc = "write",
                         !.existing = FindFirst(offers, proc[p].link.componentId,
                                                proc[p].data.vendor)]
                ELSE InnerCatch(proc[p], "find")]
    /\ UNCHANGED <<links, offers, now, batch, openBrowsers, unhandled, responses, call>>

Write(p) ==
    /\ proc[p].pc = "write"
    /\ \E ok \in BOOLEAN :
         /\ MayFail(ok)
         /\ quota' = Spend(ok)
         /\ offers' = IF ok
                      THEN Upsert(offers, proc[p].existing, proc[p].link, proc[p].data, now)
                      ELSE offers
         /\ proc' = [proc EXCEPT ![p] =
                IF ok
                THEN [proc[p] EXCEPT !.pc = "touch", !.offerWrites = @ + 1,
                         !.creates = @ + (IF proc[p].existing = 0 THEN 1 ELSE 0)]
                ELSE InnerCatch(proc[p], "write")]
    /\ UNCHANGED <<links, now, batch, openBrowsers, unhandled, responses, call>>

Touch(p) ==
    /\ proc[p].pc = "touch"
    /\ \E ok \in BOOLEAN :
         /\ MayFail(ok)
         /\ quota' = Spend(ok)
         /\ links' = ExternalIdUpdate(links, proc[p].link.id, now, ok)
         /\ proc' = [proc EXCEPT ![p] =
                IF ok THEN AfterTouch(proc[p]) ELSE InnerCatch(proc[p], "touch")]
    /\ UNCHANGED <<offers, now, batch, openBrowsers, unhandled, responses, call>>

Backoff(p) ==
    /\ proc[p].pc = "backoff"
    /\ now' = now + RetryDelay
    /\ proc' = [proc EXCEPT ![p] = AfterBackoff(@)]
    /\ UNCHANGED <<links, offers, batch, openBrowsers, unhandled, quota, responses, call>>

(***************************************************************************)
(* runPriceTracker.  batch.i is the index in trackedLinks of the link      *)
(* whose processSingleLink was called last, batch.endedAt the time at      *)
(* which that call settled.                                                *)
(***************************************************************************)
\* the call and its findMany; a failed findMany goes to the catch of the batch
RunPriceTracker ==
    /\ batch.pc \in {"idle", "done", "rejected"}
    /\ quota.runs > 0
    /\ \E ok \in BOOLEAN :
         /\ MayFail(ok)
         /\ quota' = [Spend(ok) EXCEPT !.runs = @ - 1]
         /\ batch' = IF ok
                     THEN [IdleBatch EXCEPT !.pc = "loop",
                                            !.trackedLinks = FindManyTracked(links)]
                     ELSE BatchCatch(IdleBatch)
    /\ UNCHANGED <<links, offers, now, proc, openBrowsers, unhandled, responses, call>>

\* for (const link of trackedLinks) { await processSingleLink(link); ...
BatchInvoke ==
    /\ batch.pc = "loop"
    /\ batch.i < Len(batch.trackedLinks)
    /\ batch' = [batch EXCEPT !.pc = "await", !.i = @ + 1]
    /\ LET link == batch.trackedLinks[batch.i + 1]
       IN  proc' = [proc EXCEPT ![0] =
                      [Begin(link) EXCEPT !.checkedAtStart = links[link.id].lastCheckedAt]]
    /\ UNCHANGED <<links, offers, now, openBrowsers, unhandled, quota, responses, call>>

\* processSingleLink settled: a rejection leaves the loop for the catch
BatchResume ==
    /\ batch.pc = "await"
    /\ Settled(proc[0])
    /\ batch' = IF proc[0].result = "rejected"
                THEN BatchCatch(batch)
                ELSE [batch EXCEPT !.pc = "delay", !.endedAt = now]
    /\ proc' = [proc EXCEPT ![0] = IdleProc]
    /\ UNCHANGED <<links, offers, now, openBrowsers, unhandled, quota, responses, call>>

\* BatchDelay with a timer of 0 ms
BatchNoDelay ==
    /\ batch.pc = "delay"
    /\ now' = now
    /\ batch' = [batch EXCEPT !.pc = "loop"]
    /\ UNCHANGED <<links, offers, proc, openBrowsers, unhandled, quota, responses, call>>

\* await new Promise(resolve => setTimeout(resolve, 3000));
BatchDelay ==
    /\ batch.pc = "delay"
    /\ now' = now + LinkDelay
    /\ batch' = [batch EXCEPT !.pc = "loop"]
    /\ UNCHANGED <<links, offers, proc, openBrowsers, unhandled, quota, responses, call>>

\* the loop is over: "Bulk Tracker Sleep"
BatchEnd ==
    /\ batch.pc = "loop"
    /\ batch.i = Len(batch.trackedLinks)
    /\ batch' = [batch EXCEPT !.pc = "done"]
    /\ UNCHANGED <<links, offers, now, proc, openBrowsers, unhandled, quota, responses, call>>

(***************************************************************************)
(* addTrackedLink: a request without a url is answered 400; else the link  *)
(* is created, processSingleLink is started on it and not awaited, and the *)
(* response is sent; a create that throws is answered 500.  The           *)
(* then-callback of the started run runs when it settles.                  *)
(***************************************************************************)
\* Triggered that starts processSingleLink before the create has succeeded
TriggeredUnpersisted(ps, ok, newLink) ==
    [ps EXCEPT ![newLink.id] = Begin(LinkOf(newLink))]

\* processSingleLink(newLink) is called once the awaited create has resolved
Triggered(ps, ok, newLink) ==
    IF ok THEN [ps EXCEPT ![newLink.id] = Begin(LinkOf(newLink))] ELSE ps

\* res.status(400).json(...), res.json({message, data: newLink}) and
\* res.status(500).json(...)
Response(status, linkId) == [status |-> status, linkId |-> linkId]

AddTrackedLink(componentId, url) ==
    /\ quota.links > 0
    /\ IF url = NoUrl
       THEN /\ responses' = Append(responses, Response(400, 0))
            /\ quota' = [quota EXCEPT !.links = @ - 1]
            /\ UNCHANGED <<links, proc>>
       ELSE \E ok \in BOOLEAN :
              LET newLink == [id |-> Len(links) + 1, componentId |-> componentId,
                              externalUrl |-> url, isActive |-> TRUE,
                              lastCheckedAt |-> 0]
              IN  /\ MayFail(ok)
                  /\ quota' = [Spend(ok) EXCEPT !.links = @ - 1]
                  /\ links' = IF ok THEN Append(links, newLink) ELSE links
                  /\ proc' = Triggered(proc, ok, newLink)
                  /\ responses' = Append(responses,
                         IF ok THEN Response(200, newLink.id) ELSE Response(500, 0))
    /\ UNCHANGED <<offers, now, batch, openBrowsers, unhandled, call>>

(***************************************************************************)
(* addManualOffer: the Offer is created whatever the store holds and is    *)
(* sent back; a create that throws is answered 500.                        *)
(***************************************************************************)
ManualVendors == {"", "mdcomputers"}

ManualPrices == {999}

ManualStock == {"undefined", "false"}

AddManualOffer(componentId, price, vendorName, inStock) ==
    /\ quota.manual > 0
    /\ \E ok \in BOOLEAN :
         /\ MayFail(ok)
         /\ quota' = [Spend(ok) EXCEPT !.manual = @ - 1]
         /\ offers' = IF ok
                      THEN ManualOfferCreate(offers, componentId, price, vendorName,
                                             inStock, now)
                      ELSE offers
         /\ responses' = Append(responses,
                IF ok THEN Response(200, 0) ELSE Response(500, 0))
    /\ UNCHANGED <<links, now, proc, batch, openBrowsers, unhandled, call>>

\* .then(result => { if (result) console.log(...) }): no rejection handler
RunOneSettled(p) ==
    /\ p > 0
    /\ proc[p].pc = "done"
    /\ proc' = [proc EXCEPT ![p] = IdleProc]
    /\ unhandled' = IF proc[p].result = "rejected" THEN unhandled + 1 ELSE unhandled
    /\ UNCHANGED <<links, offers, now, batch, openBrowsers, quota, responses, call>>

\* an operator switches a link off (activation is toggled outside this code)
Deactivate(l) ==
    /\ l \in 1..Len(links)
    /\ links[l].isActive
    /\ quota.toggles > 0
    /\ quota' = [quota EXCEPT !.toggles = @ - 1]
    /\ links' = [links EXCEPT ![l] = [@ EXCEPT !.isActive = FALSE]]
    /\ UNCHANGED <<offers, now, proc, batch, openBrowsers, unhandled, responses, call>>

\* price = parsePrice(priceText)
ParsePrice ==
    /\ ~call.done
    /\ call' = [call EXCEPT !.done = TRUE, !.ret = parsePrice(call.arg)]
    /\ UNCHANGED <<links, offers, now, proc, batch, openBrowsers, unhandled, quota,
                   responses>>

\* the strategy branches of scrapeUrl and its return value
ExtractPage ==
    /\ ~call.done
    /\ call' = [call EXCEPT !.done = TRUE,
                            !.ret = Extract(call.arg.url, call.arg.page)]
    /\ UNCHANGED <<links, offers, now, proc, batch, openBrowsers, unhandled, quota,
                   responses>>

ProcNext(p) ==
    \/ ScrapeUrl(p)
    \/ Find(p)
    \/ Write(p)
    \/ Touch(p)
    \/ Backoff(p)

BatchNext ==
    \/ RunPriceTracker
    \/ BatchInvoke
    \/ BatchResume
    \/ BatchDelay
    \/ BatchEnd
    \/ ProcNext(0)

RunOneNext ==
    \/ \E c \in ComponentIds, u \in Urls \cup {NoUrl} : AddTrackedLink(c, u)
    \/ \E p \in 1..MaxLinks : ProcNext(p)
    \/ \E p \in 1..MaxLinks : RunOneSettled(p)

ManualNext ==
    \/ BatchNext
    \/ \E c \in ComponentIds, pr \in ManualPrices, v \in ManualVendors,
          st \in ManualStock : AddManualOffer(c, pr, v, st)

JobNext ==
    \/ BatchNext
    \/ \E l \in 1..BatchLinks : Deactivate(l)

\* links are registered and processed at once, each by its own processSingleLink
Spec == Init /\ [][RunOneNext]_vars

\* addTrackedLink requests whose background runs may fail at every store call
RegisterSpec == InitRegister /\ [][RunOneNext]_vars

\* parsePrice evaluated on its own
ParseSpec == InitParse /\ [][ParsePrice]_vars

\* the extraction strategies evaluated on their own
ExtractSpec == InitExtract /\ [][ExtractPage]_vars

\* manual offers are entered while the batch job runs over one link
ManualSpec == InitManual /\ [][ManualNext]_vars

\* one run of the batch job over the links registered before it
BatchSpec == InitBatch /\ [][JobNext]_vars

\* the batch job started again and again over one registered link
RepeatSpec == InitRepeat /\ [][BatchNext]_vars

\* the batch is awaited: each of its steps is taken once it can be
FairBatchSpec == BatchSpec /\ WF_vars(BatchNext)

TypeOK ==
    /\ now \in Nat
    /\ openBrowsers \in Nat
    /\ \A p \in ProcIds : proc[p].retries \in 0..MaxRetries

(***************************************************************************)
(* Properties.                                                             *)
(***************************************************************************)
Running(p) == proc[p].pc # "idle"

KeyRows(p) == Matching(offers, proc[p].link.componentId, proc[p].data.vendor)

\* C1: the Offer store holds at most one Offer for each (componentId,
\* vendorId) pair, whatever the interleaving of processSingleLink executions.
C1_OneOfferPerPair ==
    \A i, j \in 1..Len(offers) :
        (offers[i].componentId = offers[j].componentId
         /\ offers[i].vendorId = offers[j].vendorId) => i = j

\* C2: a cycle whose extraction has price 0 ends right after the scrape,
\* having made no Offer create and no Offer update, and the step that ends
\* it leaves the Offer store as it was.
C2_ZeroPriceWritesNothing ==
    /\ [](\A p \in ProcIds :
            (Running(p) /\ ~proc[p].data.isNull /\ proc[p].data.price = 0)
            => (proc[p].pc = "done" /\ proc[p].outcome = "zero_price"
                /\ proc[p].offerWrites = 0))
    /\ [][\A p \in ProcIds :
            (proc'[p].outcome = "zero_price" /\ proc[p].outcome # "zero_price")
            => offers' = offers]_vars

\* a zero-price cycle on a pair whose Offer exists: the Offer keeps its price
C2_Witness ==
    \E p \in ProcIds :
        /\ proc[p].outcome = "zero_price"
        /\ proc[p].data.vendor = "mdcomputers"
        /\ \E i \in KeyRows(p) : offers[i].price > 0

\* C3: a cycle whose three reconciliation attempts all failed has persisted
\* no Offer change, and the batch has gone through all of its links when it
\* ends.
C3_ExhaustedPersistsNothing ==
    /\ \A p \in ProcIds : proc[p].outcome = "exhausted" => proc[p].offerWrites = 0
    /\ (batch.pc = "done" /\ ~batch.failed) => batch.i = Len(batch.trackedLinks)

\* C4: when the first and the second attempt fail at or before the Offer
\* write and the Offer write of the third attempt succeeds, the cycle has
\* persisted exactly one Offer create-or-update and processSingleLink does
\* not reject.
FailedBeforeWrite(p, k) ==
    /\ Len(proc[p].faults) >= k
    /\ proc[p].faults[k] \in {"find", "write"}

ThirdWriteDone(p) ==
    \/ proc[p].retries = 1 /\ proc[p].pc = "touch"
    \/ proc[p].retries = 1 /\ proc[p].outcome = "reconciled"
    \/ Len(proc[p].faults) = 3 /\ proc[p].faults[3] = "touch"

C4_ThirdAttemptWritesOnce ==
    \A p \in ProcIds :
        (FailedBeforeWrite(p, 1) /\ FailedBeforeWrite(p, 2) /\ ThirdWriteDone(p))
        => (proc[p].offerWrites = 1 /\ proc[p].result \in {"none", "data"})

C4_Witness ==
    \E p \in ProcIds :
        /\ proc[p].faults = <<"write", "write">>
        /\ proc[p].outcome = "reconciled"
        /\ proc[p].offerWrites = 1
        /\ KeyRows(p) # {}

\* C5: processSingleLink never rejects, resolves to its extraction only when
\* the cycle wrote the Offer, and resolves to null (or undefined) in every
\* skip and failure outcome.
C5_NullUnlessReconciled ==
    \A p \in ProcIds :
        /\ proc[p].result # "rejected"
        /\ proc[p].result = "data" => proc[p].offerWrites > 0
        /\ proc[p].outcome \in {"unsupported", "fetch_failed", "zero_price",
                                "exhausted", "error"}
           => proc[p].result \in {"null", "undefined"}

\* C6: no browser launched by scrapeUrl is open once scrapeUrl has returned
\* or thrown.
C6_NoBrowserLeftOpen == openBrowsers = 0

\* C10: a link whose URL matches no extraction strategy of scrapeUrl is
\* skipped without a browser launch and without an Offer write, and its
\* lastCheckedAt stays null.
HasStrategy(url) == IsMdUrl(url) \/ IsVedantUrl(url)

C10_NoStrategyNoFetch ==
    \A p \in ProcIds :
        (Running(p) /\ ~HasStrategy(proc[p].link.externalUrl))
        => (proc[p].fetches = 0 /\ proc[p].offerWrites = 0
            /\ links[proc[p].link.id].lastCheckedAt = 0)

\* C7: on a link whose earlier cycle reconciled it, the Offer write of the
\* next cycle updates the one Offer of the pair in place: no row is added,
\* the row has the extracted price and its last_updated is later than
\* before; and a reconciled cycle leaves exactly one Offer for the pair.
ReconciledBefore(p) == links[proc[p].link.id].lastCheckedAt # 0

C7_SecondRunUpdatesInPlace ==
    /\ [](proc[0].outcome = "reconciled" => Cardinality(KeyRows(0)) = 1)
    /\ [][(proc[0].pc = "write" /\ proc'[0].pc = "touch" /\ ReconciledBefore(0))
          => /\ Len(offers') = Len(offers)
             /\ Cardinality(KeyRows(0)) = 1
             /\ \A e \in KeyRows(0) :
                  /\ proc[0].existing = e
                  /\ offers'[e].price = proc[0].data.price
                  /\ offers'[e].last_updated > offers[e].last_updated]_vars

\* the second cycle, free of store failures, has updated the Offer that the
\* first one wrote, and the price is the one it had
C7_Witness ==
    /\ proc[0].pc = "touch"
    /\ proc[0].faults = <<>>
    /\ ReconciledBefore(0)
    /\ proc[0].existing = 1
    /\ Len(offers) = 1
    /\ offers[1].price = proc[0].data.price
    /\ offers[1].last_updated > links[1].lastCheckedAt

\* C8 as stated: whenever runPriceTracker calls processSingleLink, the
\* link's active flag in the store is true at that moment.
C8_NeverInvokedOnInactive ==
    [][(proc[0].pc = "idle" /\ proc'[0].pc # "idle")
       => links[proc'[0].link.id].isActive]_vars

\* C8 as amended: every link that runPriceTracker holds, and every link it
\* calls processSingleLink on, had its active flag true when the batch
\* loaded the link set.
C8_OnlyLinksActiveAtLoad ==
    /\ \A i \in 1..Len(batch.trackedLinks) : batch.trackedLinks[i].isActive
    /\ Running(0) => proc[0].link.isActive

\* a batch that ran to its end without the link that was inactive at load
C8_Witness ==
    /\ batch.pc = "done"
    /\ ~batch.failed
    /\ Len(batch.trackedLinks) >= 1
    /\ \E l \in 1..Len(links) :
         /\ ~links[l].isActive
         /\ \A i \in 1..Len(batch.trackedLinks) : batch.trackedLinks[i].id # l

\* C9: a run of the batch that has loaded its links eventually ends, and
\* only after processSingleLink was called on every link of the loaded set:
\* batch.i, which counts those calls, reaches the length of the set whatever
\* the outcomes of the cycles.
C9_EveryLoadedLinkIsProcessed ==
    (batch.pc = "loop")
    ~> (batch.pc = "done" /\ ~batch.failed /\ batch.i = Len(batch.trackedLinks))

\* the second link is being processed after the cycle of the first one used
\* up its three reconciliation attempts
C9_Witness ==
    /\ batch.pc = "await"
    /\ batch.i = 2
    /\ proc[0].pc = "scrape"
    /\ quota.faults = BatchFaults - MaxRetries

\* C11: a cycle calls scrapeUrl at most once: a cycle in or past its
\* reconciliation loop has fetched exactly once however many attempts
\* failed, and a cycle whose fetch failed has ended after that one fetch.
FetchFailures == {"launch_throws", "setup_throws", "goto_throws", "not_found"}

C11_FetchedAtMostOnce ==
    \A p \in ProcIds :
        /\ proc[p].fetches <= 1
        /\ proc[p].pc \in {"find", "write", "touch", "backoff"} => proc[p].fetches = 1
        /\ proc[p].fetched \in FetchFailures
           => (proc[p].pc = "done" /\ proc[p].fetches = 1 /\ proc[p].faults = <<>>)

\* all three attempts of a cycle failed and the page was fetched once
C11_Witness ==
    \E p \in ProcIds :
        /\ proc[p].outcome = "exhausted"
        /\ Len(proc[p].faults) = MaxRetries
        /\ proc[p].fetches = 1

\* C12: a cycle starts at most 3 reconciliation attempts; an attempt after
\* the first starts only out of the 2000 ms timer that follows a failed
\* attempt; the attempt whose lastCheckedAt update succeeds ends the cycle;
\* and a cycle that entered the loop ends.
InAttempt(r) == r.pc \in {"find", "write", "touch"}

Attempts(r) ==
    Len(r.faults) + (IF InAttempt(r) \/ r.outcome = "reconciled" THEN 1 ELSE 0)

C12_BoundedRetryLoop ==
    /\ [](\A p \in ProcIds : Attempts(proc[p]) <= MaxRetries)
    /\ [][\A p \in ProcIds :
            /\ (proc'[p].pc = "find" /\ proc[p].pc # "find")
               => \/ proc[p].pc = "scrape" /\ proc'[p].faults = <<>>
                  \/ proc[p].pc = "backoff" /\ now' >= now + RetryDelay
            /\ (proc[p].pc = "backoff" /\ proc'[p] # proc[p])
               => now' >= now + RetryDelay
            /\ (InAttempt(proc[p]) /\ Len(proc'[p].faults) > Len(proc[p].faults))
               => proc'[p].pc = "backoff"
            /\ (proc[p].pc = "touch" /\ Len(proc'[p].faults) = Len(proc[p].faults)
                /\ proc'[p] # proc[p])
               => (proc'[p].pc = "done" /\ proc'[p].outcome = "reconciled")]_vars
    /\ (InAttempt(proc[0]) ~> proc[0].pc = "done")

\* the cycle of the first link ended after three failed attempts and three
\* waits of 2000 ms
C12_Witness ==
    /\ batch.i = 1
    /\ proc[0].outcome = "exhausted"
    /\ Len(proc[0].faults) = MaxRetries
    /\ now = 1 + MaxRetries * RetryDelay

\* C13: at the end of a cycle that was skipped or that failed (unsupported
\* vendor, failed fetch, zero price, attempts exhausted), the link's
\* lastCheckedAt is what it was when the cycle began.
SkippedOrFailed == {"unsupported", "fetch_failed", "zero_price", "exhausted", "error"}

CheckedAt(p) == links[proc[p].link.id].lastCheckedAt

C13_FailedCycleKeepsTimestamp ==
    \A p \in ProcIds :
        proc[p].outcome \in SkippedOrFailed => CheckedAt(p) = proc[p].checkedAtStart

\* a link reconciled by an earlier run; in this run every attempt failed at
\* the lastCheckedAt update and the timestamp is the earlier one
C13_Witness ==
    /\ proc[0].outcome = "exhausted"
    /\ proc[0].faults = <<"touch", "touch", "touch">>
    /\ proc[0].checkedAtStart > 0
    /\ CheckedAt(0) = proc[0].checkedAtStart
    /\ now > CheckedAt(0)

\* C14: a cycle that has ended and that persisted an Offer create or update
\* has advanced the lastCheckedAt of its link.
C14_OfferWriteAdvancesTimestamp ==
    \A p \in ProcIds :
        (proc[p].pc = "done" /\ proc[p].offerWrites > 0)
        => CheckedAt(p) > proc[p].checkedAtStart

\* C15: at the end of a reconciled cycle whose extraction gave vendor v,
\* price p > 0 and stock flag s, the one Offer of (link.componentId, v) has
\* price p, effective_price p and in_stock s, and the link's lastCheckedAt
\* is later than at the start of the cycle; and the mdcomputers page with
\* price text Rs12,999 and an enabled cart button extracts to price 12999,
\* in stock.
C15_ReconciledOfferMatchesExtraction ==
    /\ Extract(UrlMd, PageDeal) = [isNull |-> FALSE, vendor |-> "mdcomputers",
                                   price |-> 12999, inStock |-> "true"]
    /\ \A p \in ProcIds :
          proc[p].outcome = "reconciled"
          => /\ proc[p].data.price > 0
             /\ Cardinality(KeyRows(p)) = 1
             /\ \A i \in KeyRows(p) :
                  /\ offers[i].price = proc[p].data.price
                  /\ offers[i].effective_price = proc[p].data.price
                  /\ offers[i].in_stock = proc[p].data.inStock
             /\ CheckedAt(p) > proc[p].checkedAtStart

\* the link was reconciled before at another price; this cycle extracted
\* 12999, in stock, and the Offer and the timestamp show it
C15_Witness ==
    /\ proc[0].outcome = "reconciled"
    /\ proc[0].checkedAtStart > 0
    /\ proc[0].existing = 1
    /\ offers[1].vendorId = "mdcomputers"
    /\ offers[1].price = 12999
    /\ offers[1].effective_price = 12999
    /\ offers[1].in_stock = "true"
    /\ offers[1].last_updated > proc[0].checkedAtStart
    /\ CheckedAt(0) > proc[0].checkedAtStart

\* C16: when page.goto throws or the loaded page is a 404 page, scrapeUrl
\* returns null and the cycle ends there: no Offer is written by it, the
\* step leaves the Offer store as it was, processSingleLink does not
\* reject, and the batch goes on to its inter-link delay.
PageFetchFailed(r) == r.fetched \in {"goto_throws", "not_found"}

C16_FetchFailureSkipsCycle ==
    /\ [](\A p \in ProcIds :
            PageFetchFailed(proc[p])
            => /\ proc[p].pc = "done"
               /\ proc[p].outcome = "fetch_failed"
               /\ proc[p].data.isNull
               /\ proc[p].offerWrites = 0
               /\ proc[p].result # "rejected")
    /\ [][\A p \in ProcIds :
            (PageFetchFailed(proc'[p]) /\ ~PageFetchFailed(proc[p]))
            => offers' = offers]_vars
    /\ [][(PageFetchFailed(proc[0]) /\ batch' # batch)
          => (batch'.pc = "delay" /\ ~batch'.failed)]_vars

\* the first link was reconciled; the page of the second one is a 404 page
\* and the Offer store still holds what the first cycle wrote
C16_Witness ==
    /\ batch.i = 2
    /\ proc[0].fetched = "not_found"
    /\ proc[0].outcome = "fetch_failed"
    /\ links[1].lastCheckedAt > 0
    /\ Len(offers) = 1
    /\ offers[1].price > 0

\* C17: runPriceTracker never rejects; a run whose findMany failed has
\* gone through its catch and is over, with no link loaded, no
\* processSingleLink started and no Offer written, and nothing of the run
\* happens after that.
C17_LoadFailureEndsBatchQuietly ==
    /\ [](batch.pc # "rejected")
    /\ [](batch.failed
          => /\ batch.pc = "done"
             /\ batch.i = 0
             /\ batch.trackedLinks = <<>>
             /\ proc[0] = IdleProc
             /\ offers = <<>>)
    /\ [][batch.failed => (batch' = batch /\ proc' = proc /\ offers' = offers)]_vars

\* two active links are registered and the run ended in its catch without
\* touching either
C17_Witness ==
    /\ batch.failed
    /\ batch.pc = "done"
    /\ Len(links) = 2
    /\ \A l \in 1..Len(links) : links[l].isActive /\ links[l].lastCheckedAt = 0

\* C18: the batch has at most one processSingleLink in progress, the one
\* of the link at its current position; the position moves by one, in the
\* order of the loaded set, and only when no cycle is in progress; and a
\* cycle in progress is never dropped or replaced before it has ended.
InProgress(r) == r.pc \notin {"idle", "done"}

C18_OneLinkAtATimeInOrder ==
    /\ [](Running(0)
          => /\ batch.pc = "await"
             /\ batch.i \in 1..Len(batch.trackedLinks)
             /\ proc[0].link = batch.trackedLinks[batch.i])
    /\ [][batch'.i # batch.i
          => /\ batch'.i = batch.i + 1
             /\ proc[0].pc = "idle"
             /\ proc'[0].link = batch.trackedLinks[batch'.i]]_vars
    /\ [][InProgress(proc[0])
          => (proc'[0].pc # "idle" /\ proc'[0].link = proc[0].link)]_vars

\* the cycle of the second link is in progress and the first link, which
\* came first in the loaded set, has been reconciled
C18_Witness ==
    /\ batch.i = 2
    /\ InProgress(proc[0])
    /\ proc[0].link.id = 2
    /\ batch.trackedLinks[1].id = 1
    /\ links[1].lastCheckedAt > 0

\* C19: whenever the batch is processing a link after the first, at least
\* 3000 ms have passed since the cycle of the link before it ended; the
\* batch leaves every settled cycle, whatever its outcome, for the delay,
\* and leaves the delay only after the 3000 ms.
C19_DelayBetweenLinks ==
    /\ []((batch.pc = "await" /\ batch.i > 1) => now >= batch.endedAt + LinkDelay)
    /\ [][(batch.pc = "await" /\ batch' # batch)
          => (batch'.pc = "delay" /\ batch'.endedAt = now)]_vars
    /\ [][(batch.pc = "delay" /\ batch' # batch)
          => (batch'.pc = "loop" /\ now' = now + LinkDelay)]_vars

\* the first link was skipped as unsupported, without a fetch, and the
\* cycle of the second one began 3000 ms after that
C19_Witness ==
    /\ batch.pc = "await"
    /\ batch.i = 2
    /\ ~IsValid(batch.trackedLinks[1].externalUrl)
    /\ batch.endedAt = 1
    /\ now = batch.endedAt + LinkDelay

\* C20: a background run is only ever in progress on a link that is in the
\* store, and the response for that link has been sent by then; the
\* response to a created link is sent in the step that starts the run,
\* before the run has passed its first await; a response, once sent, never
\* changes; and no run ends in an unhandled rejection.
Answered(l) == \E k \in 1..Len(responses) : responses[k] = Response(200, l)

C20_RespondsWithoutWaiting ==
    /\ [](unhandled = 0)
    /\ [](\A p \in 1..MaxLinks :
            Running(p)
            => /\ p \in 1..Len(links)
               /\ LinkOf(links[p]) = proc[p].link
               /\ Answered(p))
    /\ [][\A k \in 1..Len(responses) : responses'[k] = responses[k]]_vars
    /\ [][\A l \in 1..MaxLinks :
            (Answered(l)' /\ ~Answered(l))
            => /\ Len(links') = l /\ Len(links) = l - 1
               /\ proc[l].pc = "idle"
               /\ \/ proc'[l].pc = "scrape"
                  \/ proc'[l].outcome = "unsupported"]_vars
    /\ [][\A p \in 1..MaxLinks :
            (proc[p].pc = "done" /\ proc'[p].pc = "idle")
            => (proc[p].result # "rejected" /\ unhandled' = unhandled)]_vars

\* the link was answered 200 and its background run used up its three
\* attempts; nothing was raised
C20_Witness ==
    /\ responses = <<Response(200, 1)>>
    /\ proc[1].outcome = "exhausted"
    /\ Len(proc[1].faults) = MaxRetries
    /\ unhandled = 0

\* A numeric substring of a text is a maximal run of digits, commas and
\* dots that holds a digit; its number is what its digits read in decimal.
NumericRuns(s) ==
    {r \in (1..Len(s)) \X (1..Len(s)) :
        /\ r[1] <= r[2]
        /\ \A k \in r[1]..r[2] : s[k] \in NumChars
        /\ \E k \in r[1]..r[2] : s[k] \in Digits
        /\ r[1] = 1 \/ s[r[1] - 1] \notin NumChars
        /\ r[2] = Len(s) \/ s[r[2] + 1] \notin NumChars}

RECURSIVE Pow10(_)
Pow10(n) == IF n = 0 THEN 1 ELSE 10 * Pow10(n - 1)

DigitsAfter(s, k, j) == Cardinality({m \in (k + 1)..j : s[m] \in Digits})

RECURSIVE SumOver(_, _, _)
SumOver(s, ks, j) ==
    IF ks = {} THEN 0
    ELSE LET k == CHOOSE x \in ks : TRUE
         IN  DigitVal(s[k]) * Pow10(DigitsAfter(s, k, j)) + SumOver(s, ks \ {k}, j)

NumberOf(s, r) == SumOver(s, {k \in r[1]..r[2] : s[k] \in Digits}, r[2])

Numbers(s) == {NumberOf(s, r) : r \in NumericRuns(s)}

Least(S) == CHOOSE m \in S : \A n \in S : m <= n

HasDigit(s) == \E k \in 1..Len(s) : s[k] \in Digits

\* C21 as stated: on a text with two numeric substrings parsePrice returns
\* the smaller of their two numbers, and on a text without a digit it
\* returns 0.
C21_SmallerOfTwoNumbers ==
    call.done
    => /\ Cardinality(NumericRuns(call.arg)) = 2
          => call.ret = Least(Numbers(call.arg))
       /\ ~HasDigit(call.arg) => call.ret = 0

\* C21 as amended: on a text with two numeric substrings parsePrice returns
\* the smaller of those of their numbers that are positive, and 0 when
\* neither is; on a text without a digit it returns 0.
C21_SmallerOfTwoPositiveNumbers ==
    call.done
    => /\ Cardinality(NumericRuns(call.arg)) = 2
          => LET positive == {n \in Numbers(call.arg) : n > 0}
             IN  call.ret = IF positive = {} THEN 0 ELSE Least(positive)
       /\ ~HasDigit(call.arg) => call.ret = 0

\* the text with a struck-out price of 8,399 and a price of 5,300 parsed to 5300
C21_Witness ==
    /\ call.done
    /\ call.arg = TextWasNow
    /\ Cardinality(NumericRuns(call.arg)) = 2
    /\ call.ret = 5300

\* C22: parsePrice returns a non-negative integer for every text: the empty
\* one, those of separators only, those with a currency mark and commas;
\* and "1,000" gives 1000.
C22_ParsePriceTotal ==
    call.done
    => /\ call.ret \in Nat
       /\ call.arg = TextThousand => call.ret = 1000
       /\ call.arg = <<>> => call.ret = 0
       /\ call.arg = TextDeal => call.ret = 12999

\* a text of separators only was parsed, to 0
C22_Witness ==
    /\ call.done
    /\ call.arg = <<",", ",">>
    /\ call.ret = 0

\* C25: the price of an extraction is the parse of the text of the first
\* candidate element, in the priority order of the strategy, whose text is
\* not empty, and of "0" when there is none.
Candidates(url, page) ==
    IF IsMdUrl(url)
    THEN <<page.priceNew, page.productPrice, page.price, page.rightPrice>>
    ELSE <<page.productPrice, page.priceNew, page.price>>

FirstNonEmptyText(cands) ==
    LET carrying == {i \in 1..Len(cands) : cands[i] # Absent /\ cands[i] # <<>>}
    IN  IF carrying = {} THEN <<"0">> ELSE cands[Least(carrying)]

C25_FirstNonEmptyCandidateWins ==
    (call.done /\ HasStrategy(call.arg.url))
    => call.ret.price =
         parsePrice(FirstNonEmptyText(Candidates(call.arg.url, call.arg.page)))

\* C26: the inStock of every extraction is true or false, and for
\* mdcomputers it is true exactly when the cart button is present, enabled
\* and displayed and no out-of-stock marker is shown.
C26_InStockIsBoolean ==
    call.done
    => /\ call.ret.inStock \in {"true", "false"}
       /\ IsMdUrl(call.arg.url)
          => (call.ret.inStock = "true"
              <=> (call.arg.page.btn = "enabled" /\ ~call.arg.page.oos))

\* C23: what a finished run of runPriceTracker returns is a summary that
\* counts every link of the loaded set as processed and each of them as
\* succeeded, failed or skipped.
C23_BatchSummaryCountsEveryLink ==
    (batch.pc = "done" /\ ~batch.failed)
    => LET summary == BatchReturn(batch)
       IN  /\ ~summary.isUndefined
           /\ summary.processed = Len(batch.trackedLinks)
           /\ summary.succeeded + summary.failed + summary.skipped
                = summary.processed

\* C24: a cycle moves through dispatch, fetch, validation and the
\* reconciliation attempts in that order; it fetches only a URL that passed
\* the gate; it is in its reconciliation loop, or has written an Offer,
\* only with a URL that a strategy matched, a loaded page and a price above
\* 0; and it ends in the one outcome that its history determines.
CycleSteps ==
    {<<"idle", "scrape">>, <<"idle", "done">>, <<"scrape", "find">>,
     <<"scrape", "done">>, <<"find", "write">>, <<"find", "backoff">>,
     <<"write", "touch">>, <<"write", "backoff">>, <<"touch", "done">>,
     <<"touch", "backoff">>, <<"backoff", "find">>, <<"backoff", "done">>,
     <<"done", "idle">>}

OutcomeOf(r) ==
    IF r.fetches = 0 THEN "unsupported"
    ELSE IF r.fetched \in {"launch_throws", "setup_throws"} THEN "error"
    ELSE IF r.fetched \in {"goto_throws", "not_found"} THEN "fetch_failed"
    ELSE IF r.data.price = 0 THEN "zero_price"
    ELSE IF Len(r.faults) = MaxRetries THEN "exhausted"
    ELSE "reconciled"

C24_CycleOrderAndOutcomes ==
    /\ [](\A p \in ProcIds :
            /\ proc[p].fetches > 0 => IsValid(proc[p].link.externalUrl)
            /\ (proc[p].pc \in {"find", "write", "touch", "backoff"}
                \/ proc[p].offerWrites > 0)
               => /\ HasStrategy(proc[p].link.externalUrl)
                  /\ proc[p].fetched = "loaded"
                  /\ proc[p].data.price > 0
            /\ proc[p].pc = "done" => proc[p].outcome = OutcomeOf(proc[p])
            /\ proc[p].outcome = "reconciled" => CheckedAt(p) = now)
    /\ [][\A p \in ProcIds :
            proc'[p].pc # proc[p].pc => <<proc[p].pc, proc'[p].pc>> \in CycleSteps]_vars

\* a cycle that was reconciled by its second attempt
C24_Witness ==
    /\ proc[0].outcome = "reconciled"
    /\ Len(proc[0].faults) = 1
    /\ proc[0].fetched = "loaded"
    /\ proc[0].offerWrites >= 1

\* C27: a cycle whose page was loaded has an extraction with a vendor tag:
\* every URL that passed the gate was matched by a strategy.
C27_AcceptedUrlHasStrategy ==
    \A p \in ProcIds :
        proc[p].fetched = "loaded"
        => (proc[p].data.vendor # "" /\ HasStrategy(proc[p].link.externalUrl))

\* C28: a cycle creates at most one Offer; once it has created one, each
\* later Offer write of the cycle is an update in place of an Offer that
\* its lookup found.
C28_OneCreatePerCycle ==
    /\ [](\A p \in ProcIds : proc[p].creates <= 1)
    /\ [][\A p \in ProcIds :
            (proc[p].pc = "write" /\ proc'[p].pc = "touch" /\ proc[p].creates = 1)
            => /\ proc[p].existing # 0
               /\ Len(offers') = Len(offers)
               /\ proc'[p].creates = 1]_vars

\* the first attempt created the Offer and failed at the lastCheckedAt
\* update; the second one found it and updated it
C28_Witness ==
    \E p \in ProcIds :
        /\ proc[p].faults = <<"touch">>
        /\ proc[p].outcome = "reconciled"
        /\ proc[p].creates = 1
        /\ proc[p].offerWrites = 2
        /\ Cardinality(KeyRows(p)) = 1

\* C29: the Offer write of a cycle that found an Offer changes that Offer
\* only in price, effective_price, in_stock and last_updated: its
\* componentId, vendorId, sourceId, vendor_url and shipping, and every
\* other Offer, are as before, and no Offer is added.
C29_UpdateKeepsOtherFields ==
    [][\A p \in ProcIds :
         (proc[p].pc = "write" /\ proc'[p].pc = "touch" /\ proc[p].existing # 0)
         => LET e == proc[p].existing
            IN  /\ Len(offers') = Len(offers)
                /\ \A i \in 1..Len(offers) : i # e => offers'[i] = offers[i]
                /\ offers'[e].componentId = offers[e].componentId
                /\ offers'[e].vendorId = offers[e].vendorId
                /\ offers'[e].sourceId = offers[e].sourceId
                /\ offers'[e].vendor_url = offers[e].vendor_url
                /\ offers'[e].shipping = offers[e].shipping
                /\ offers'[e].price = proc[p].data.price]_vars

\* a manual Offer of mdcomputers was entered at 999; the cycle found it
\* and wrote its extracted price into it, and it is still a manual Offer
\* without a vendor URL; the other manual Offer is as it was entered
C29_Witness ==
    /\ proc[0].pc = "touch"
    /\ proc[0].existing = 1
    /\ Len(offers) = 2
    /\ offers[1].vendorId = "mdcomputers"
    /\ offers[1].sourceId = "manual"
    /\ offers[1].vendor_url = <<>>
    /\ offers[1].price = proc[0].data.price
    /\ offers[1].price # 999
    /\ offers[2].vendorId = "Manual Entry"
    /\ offers[2].price = 999

\* C30: whatever manual offers were entered and whatever cycles ran, no
\* component has two Offers of the same vendor.
VendorIds == {"mdcomputers", "vedant", "Manual Entry", ""}

C30_ManualOffersKeepPairsUnique ==
    \A c \in ComponentIds, v \in VendorIds :
        Cardinality(Matching(offers, c, v)) <= 1

====
